---- MODULE Spec2Model ----
(***************************************************************************)
(* A model of the ray tracer core: primitive intersection (ray.py), the    *)
(* local shaders (shaders.py), raytrace / compute_color / compute_shadow   *)
(* (raytrace.py) and the sky dome sampler (sky.py).                        *)
(*                                                                         *)
(* Numbers.  The program computes in floating point.  The model computes   *)
(* the same expressions in exact rational arithmetic: a scalar is a pair   *)
(* <<numerator, denominator>> in lowest terms with a positive denominator, *)
(* np.inf is <<1, 0>>, and np.sqrt is taken only of perfect squares (the   *)
(* inputs are chosen so that every square root the program takes is        *)
(* rational).  Floating-point rounding is therefore not modelled.          *)
(*                                                                         *)
(* Four operations are modelled, each with its own variables and its own   *)
(* specification: one call of Ray.intersect (SpecIntersect), one call of a *)
(* diffuse shader (SpecShade), calls of raytrace on a scene (SpecRaytrace) *)
(* and one call of a sky sampler (SpecSky).  The variables of the          *)
(* operations a specification does not run stay at None.                   *)
(***************************************************************************)
EXTENDS Integers, Sequences, FiniteSets, TLC

\* ------------------------------------------------------------------ bounds
\* Ray origins of the intersection checks have coordinates in -MaxCoord..MaxCoord.
MaxCoord == 1
\* The caller's primitive list holds at most MaxObjects entries.
MaxObjects == 2
\* The light list holds between 1 and MaxLights lights.
MaxLights == 2
\* Unit vectors of the shader checks are the integer vectors with components in
\* -MaxComp..MaxComp and an integer length, divided by that length.
MaxComp == 2
\* The number of view samples passed to the sky samplers (view_samples).
ViewSamples == 2

\* --------------------------------------------------------------- rationals
Abs(x) == IF x < 0 THEN -x ELSE x

RECURSIVE GCD(_, _)
GCD(a, b) == IF b = 0 THEN a ELSE GCD(b, a % b)

Lowest(n, d, g) == <<n \div g, d \div g>>
\* n / d in lowest terms, d > 0
Rat(n, d) == Lowest(n, d, GCD(Abs(n), d))

R(k) == <<k, 1>>
Inf == <<1, 0>>

\* the operands of the arithmetic need not be in lowest terms; the results are
RAdd(x, y) == Rat(x[1] * y[2] + y[1] * x[2], x[2] * y[2])
RNeg(x) == <<-x[1], x[2]>>
RSub(x, y) == Rat(x[1] * y[2] - y[1] * x[2], x[2] * y[2])
RMul(x, y) == Rat(x[1] * y[1], x[2] * y[2])
RDiv(x, y) ==
    IF y[1] < 0
    THEN Rat(-(x[1] * y[2]), -(x[2] * y[1]))
    ELSE Rat(x[1] * y[2], x[2] * y[1])
\* a product that is not reduced (an operand of a sum or a difference)
Prod(x, y) == <<x[1] * y[1], x[2] * y[2]>>
Sum3(x, y, z) ==
    Rat(x[1] * y[2] * z[2] + y[1] * x[2] * z[2] + z[1] * x[2] * y[2],
        x[2] * y[2] * z[2])
RLt(x, y) == x[1] * y[2] < y[1] * x[2]
RLe(x, y) == x[1] * y[2] <= y[1] * x[2]
RMax(x, y) == IF RLt(x, y) THEN y ELSE x
RMin(x, y) == IF RLt(y, x) THEN y ELSE x
RSign(x) == IF x[1] < 0 THEN -1 ELSE IF x[1] = 0 THEN 0 ELSE 1

RECURSIVE RootFrom(_, _)
RootFrom(n, k) == IF (k + 1) * (k + 1) > n THEN k ELSE RootFrom(n, k + 1)
\* the integer part of the square root of n >= 0
ISqrt(n) == RootFrom(n, 0)
IsSquare(n) == n >= 0 /\ ISqrt(n) * ISqrt(n) = n
\* a rational in lowest terms is the square of a rational iff both parts are squares
IsRatSquare(x) == IsSquare(x[1]) /\ IsSquare(x[2])
\* np.sqrt on a perfect square
RSqrt(x) == <<ISqrt(x[1]), ISqrt(x[2])>>
\* truncation of a non-negative value to an integer (astype(np.uint8) below 256)
Floor(x) == x[1] \div x[2]

\* ----------------------------------------------------------------- vectors
V(x, y, z) == <<R(x), R(y), R(z)>>
VAdd(u, v) == <<RAdd(u[1], v[1]), RAdd(u[2], v[2]), RAdd(u[3], v[3])>>
VSub(u, v) == <<RSub(u[1], v[1]), RSub(u[2], v[2]), RSub(u[3], v[3])>>
VScale(s, v) == <<RMul(s, v[1]), RMul(s, v[2]), RMul(s, v[3])>>
dot(u, v) == Sum3(Prod(u[1], v[1]), Prod(u[2], v[2]), Prod(u[3], v[3]))
cross(u, v) ==
    <<RSub(Prod(u[2], v[3]), Prod(u[3], v[2])),
      RSub(Prod(u[3], v[1]), Prod(u[1], v[3])),
      RSub(Prod(u[1], v[2]), Prod(u[2], v[1]))>>
Zero3 == <<<<0, 1>>, <<0, 1>>, <<0, 1>>>>
\* np.linalg.norm, for vectors of rational length
norm(v) == RSqrt(dot(v, v))
HasRationalNorm(v) == IsRatSquare(dot(v, v))

\* arr / norm unless norm == 0
DivideByNorm(arr, nrm) ==
    IF nrm = R(0)
    THEN arr
    ELSE <<RDiv(arr[1], nrm), RDiv(arr[2], nrm), RDiv(arr[3], nrm)>>
\* utils.normalize: a zero vector is returned unchanged
normalize(arr) == DivideByNorm(arr, norm(arr))

\* utils.distance(p, q): the Euclidean distance between two points
distance(p, q) == norm(VSub(p, q))

\* -------------------------------------------------------------- primitives
\* object.py: every primitive is a record with the same fields; `kind` is the class
\* that isinstance tests.  HollowSphere is a Sphere (it reuses the sphere solver).
None == "None"
NoVec == <<>>

Prim(kind, position, radius, n, verts, diffuse, shader_type) ==
    [kind |-> kind, position |-> position, radius |-> radius, n |-> n,
     verts |-> verts, diffuse |-> diffuse, shader_type |-> shader_type]

Sphere(position, diffuse, shader_type, radius) ==
    Prim("Sphere", position, radius, NoVec, <<>>, diffuse, shader_type)

HollowSphere(position, diffuse, shader_type, radius) ==
    Prim("HollowSphere", position, radius, NoVec, <<>>, diffuse, shader_type)

Plane(position, diffuse, shader_type, n) ==
    Prim("Plane", position, R(0), n, <<>>, diffuse, shader_type)

\* a triangle's plane: a vertex and the normalised cross product of two edges
Triangle(v0, v1, v2, diffuse, shader_type) ==
    Prim("Triangle", v0, R(0), normalize(cross(VSub(v1, v0), VSub(v2, v0))),
         <<v0, v1, v2>>, diffuse, shader_type)

Tetrahedron(v0, v1, v2, v3, diffuse, shader_type) ==
    Prim("Tetrahedron", v0, R(0), NoVec, <<v0, v1, v2, v3>>, diffuse, shader_type)

\* a primitive of a class that Ray.intersect does not know
OtherObject(position) ==
    Prim("Object", position, R(0), NoVec, <<>>, Zero3, "none")

IsSphere(obj) == obj.kind \in {"Sphere", "HollowSphere"}
IsPlane(obj) == obj.kind = "Plane"
IsTetrahedron(obj) == obj.kind = "Tetrahedron"
IsTriangle(obj) == obj.kind = "Triangle"

\* the solution (s, t) of w = s u + t v from the projections onto u and v
SolveST(uu, uv, vv, wu, wv) ==
    <<RDiv(RSub(Prod(uv, wv), Prod(vv, wu)), RSub(Prod(uv, uv), Prod(uu, vv))),
      RDiv(RSub(Prod(uv, wu), Prod(uu, wv)), RSub(Prod(uv, uv), Prod(uu, vv)))>>
ProjectST(u, v, w) == SolveST(dot(u, u), dot(u, v), dot(v, v), dot(w, u), dot(w, v))
\* Triangle.get_barycentric_coord: (s, t) with p - v0 = s (v1 - v0) + t (v2 - v0)
get_barycentric_coord(triangle, p) ==
    ProjectST(VSub(triangle.verts[2], triangle.verts[1]),
              VSub(triangle.verts[3], triangle.verts[1]),
              VSub(p, triangle.verts[1]))

\* Tetrahedron.get_triangles: the four faces
get_triangles(tetrahedron) ==
    <<Triangle(tetrahedron.verts[1], tetrahedron.verts[2], tetrahedron.verts[3],
               tetrahedron.diffuse, tetrahedron.shader_type),
      Triangle(tetrahedron.verts[1], tetrahedron.verts[2], tetrahedron.verts[4],
               tetrahedron.diffuse, tetrahedron.shader_type),
      Triangle(tetrahedron.verts[1], tetrahedron.verts[3], tetrahedron.verts[4],
               tetrahedron.diffuse, tetrahedron.shader_type),
      Triangle(tetrahedron.verts[2], tetrahedron.verts[3], tetrahedron.verts[4],
               tetrahedron.diffuse, tetrahedron.shader_type)>>

\* --------------------------------------------------------------------- Ray
Ray(pr, nr) == [pr |-> pr, nr |-> nr]

at(ray, t) == VAdd(ray.pr, VScale(t, ray.nr))

\* mutant: the test t < 0 is left out
MissIfNegative_keeps_negative(t) == t

\* if t < 0: return -1
MissIfNegative(t) == IF RLt(t, R(0)) THEN R(-1) ELSE t

\* mutant: a parallel ray is always a miss
PlaneT_parallel_miss(dot_normals, num) ==
    IF dot_normals = R(0)
    THEN R(-1)
    ELSE MissIfNegative(RDiv(num, dot_normals))

\* the value intersect_plane returns for d = dot_normals and the numerator of t
PlaneT(dot_normals, num) ==
    IF dot_normals = R(0)
    THEN IF num = R(0) THEN R(0) ELSE R(-1)
    ELSE MissIfNegative(RDiv(num, dot_normals))

intersect_plane(ray, plane) ==
    PlaneT(dot(ray.nr, plane.n), dot(VSub(plane.position, ray.pr), plane.n))

\* the near root for b and the discriminant, or -1
NearRoot(b, discriminant) ==
    IF RLt(R(0), b) \/ RLt(discriminant, R(0))
    THEN R(-1)
    ELSE RSub(RNeg(b), RSqrt(discriminant))

\* b and c of the reduced quadratic, for dif = ray.pr - pc
SphereB(nr, dif) == dot(nr, dif)
SphereC(dif, radius) == RSub(dot(dif, dif), Prod(radius, radius))
Discriminant(b, c) == RSub(Prod(b, b), c)

SolveSphere(nr, dif, radius) ==
    NearRoot(SphereB(nr, dif), Discriminant(SphereB(nr, dif), SphereC(dif, radius)))

intersect_sphere(ray, sphere) ==
    SolveSphere(ray.nr, VSub(ray.pr, sphere.position), sphere.radius)

\* mutant: the test of s + t is left out
OutsideTriangle_no_sum(st) ==
    \/ ~(RLe(R(0), st[1]) /\ RLe(st[1], R(1)))
    \/ ~(RLe(R(0), st[2]) /\ RLe(st[2], R(1)))

\* not 0 <= s <= 1 or not 0 <= t <= 1 or not 0 <= s + t <= 1
OutsideTriangle(st) ==
    \/ ~(RLe(R(0), st[1]) /\ RLe(st[1], R(1)))
    \/ ~(RLe(R(0), st[2]) /\ RLe(st[2], R(1)))
    \/ ~(RLe(R(0), RAdd(st[1], st[2])) /\ RLe(RAdd(st[1], st[2]), R(1)))

\* the rest of intersect_triangle once ray_t is known
TriangleT(ray, triangle, ray_t) ==
    IF OutsideTriangle(get_barycentric_coord(triangle, at(ray, ray_t)))
    THEN R(-1)
    ELSE ray_t

intersect_triangle(ray, triangle) ==
    TriangleT(ray, triangle, intersect_plane(ray, triangle))

\* if 0 < t < min_t: min_t = t
MinStep(min_t, t) == IF RLt(R(0), t) /\ RLt(t, min_t) THEN t ELSE min_t

RECURSIVE MinFaceHit(_, _, _, _)
\* the loop of intersect_tetrahedron over triangles[k..], min_t so far
MinFaceHit(ray, triangles, k, min_t) ==
    IF k > Len(triangles)
    THEN min_t
    ELSE MinFaceHit(ray, triangles, k + 1,
                    MinStep(min_t, intersect_triangle(ray, triangles[k])))

\* if min_t == np.inf: return -1
MissIfInf(min_t) == IF min_t = Inf THEN R(-1) ELSE min_t

intersect_tetrahedron(ray, tetrahedron) ==
    MissIfInf(MinFaceHit(ray, get_triangles(tetrahedron), 1, Inf))

intersect(ray, obj) ==
    IF IsSphere(obj) THEN intersect_sphere(ray, obj)
    ELSE IF IsPlane(obj) THEN intersect_plane(ray, obj)
    ELSE IF IsTetrahedron(obj) THEN intersect_tetrahedron(ray, obj)
    ELSE IF IsTriangle(obj) THEN intersect_triangle(ray, obj)
    ELSE R(-1)

\* The square root that NearRoot takes (if it takes one) is rational.
ExactRoot(b, discriminant) ==
    RLt(R(0), b) \/ RLt(discriminant, R(0)) \/ IsRatSquare(discriminant)
ExactSolve(nr, dif, radius) ==
    ExactRoot(SphereB(nr, dif), Discriminant(SphereB(nr, dif), SphereC(dif, radius)))
ExactSphere(ray, sphere) ==
    ExactSolve(ray.nr, VSub(ray.pr, sphere.position), sphere.radius)

\* ----------------------------------------------------------------- shaders
\* constants.py
MAX_COLOR_VALUE == 255
RGB_CHANNELS == 3

TYPE_DIFFUSE_LIGHT == "diffuse_light"
TYPE_DIFFUSE_COLORS == "diffuse_colors"
TYPE_DIFF_SPECULAR == "diffuse_with_specular"
TYPE_DIFF_SPEC_BORDER == "diffuse_specular_border"
COLOR_FOR_LIGHT == <<<<255, 1>>, <<255, 1>>, <<255, 1>>>>
COLOR_FOR_BORDER == <<<<185, 1>>, <<185, 1>>, <<185, 1>>>>
DEFAULT_KS == <<4, 5>>
DEFAULT_THICKNESS == <<7, 10>>

\* np.maximum(0, np.dot(n, l)): a scalar
diffuse_light(n, l) == RMax(R(0), dot(n, l))

\* light * t + dark * (1 - t)
Blend(t, dark, light) == VAdd(VScale(t, light), VScale(RSub(R(1), t), dark))

\* mutant: the coefficient is not clamped at 0
diffuse_colors_unclamped(n, l, dark, light) == Blend(dot(n, l), dark, light)

diffuse_colors(n, l, dark, light) == Blend(RMax(R(0), dot(n, l)), dark, light)

\* s = (s - step_min) / (step_max - step_min), clamped to [0, 1]
Clamp01(s) == IF RLt(s, R(0)) THEN R(0) ELSE IF RLt(R(1), s) THEN R(1) ELSE s
Step(s, step_min, step_max) == Clamp01(RDiv(RSub(s, step_min), RSub(step_max, step_min)))
\* -2 * (s ** 3) + 3 * (s ** 2)
Smooth(s) == RAdd(RMul(R(-2), RMul(s, RMul(s, s))), RMul(R(3), RMul(s, s)))
\* r = -1 * l + 2 * n_dot_l * n
Reflect(l, n, n_dot_l) == VAdd(VScale(R(-1), l), VScale(RMul(R(2), n_dot_l), n))
\* the specular weight s for the reflection r
Specular(eye, refl) == Smooth(Step(RMax(R(0), dot(eye, refl)), <<73, 100>>, R(1)))

diffuse_with_specular(n, l, eye, dark, light, ks) ==
    Blend(RMul(Specular(eye, Reflect(l, n, dot(n, l))), ks),
          Blend(RMax(R(0), dot(n, l)), dark, light),
          COLOR_FOR_LIGHT)

diffuse_specular_border(n, l, eye, dark, light, ks, thickness) ==
    Blend(Step(RMax(R(0), RSub(R(1), dot(eye, n))), thickness, R(1)),
          diffuse_with_specular(n, l, eye, dark, light, ks),
          COLOR_FOR_BORDER)

\* ---------------------------------------------------------------- raytrace
\* light.py: a light and its two queries at a surface point
Light(position) == [position |-> position]
get_l(light, ph) == normalize(VSub(light.position, ph))
get_dist(light, ph) == distance(light.position, ph)

\* Object.normal_at: undefined (None) at the centre of a sphere
normal_at(obj, ph) ==
    IF IsSphere(obj)
    THEN IF ph = obj.position THEN None ELSE normalize(VSub(ph, obj.position))
    ELSE IF IsPlane(obj) \/ IsTriangle(obj) THEN obj.n
    ELSE None

\* raytrace.py: the luminance presets (the same value in every channel)
DARK_VALUE == Rat(15, MAX_COLOR_VALUE)
LIGHT_VALUE == Rat(240, MAX_COLOR_VALUE)

COLOR_BLUE == <<<<0, 1>>, <<0, 1>>, <<255, 1>>>>
Gray == <<<<128, 1>>, <<128, 1>>, <<128, 1>>>>

\* The scene's primitives.  A primitive list holds references: an entry of a list
\* is a key of this table, and two entries are the same object iff they are the
\* same key.
PrimTable ==
    [S1 |-> Sphere(V(0, 0, 3), COLOR_BLUE, TYPE_DIFFUSE_COLORS, R(1)),
     S2 |-> Sphere(V(0, 0, 7), Gray, TYPE_DIFFUSE_LIGHT, R(1)),
     PW |-> Plane(V(0, 0, 2), Gray, "none", V(0, 0, -1)),
     Z  |-> Sphere(V(0, 0, 6), Gray, TYPE_DIFF_SPECULAR, R(0)),
     PF |-> Plane(V(0, -3, 0), Gray, TYPE_DIFF_SPEC_BORDER, V(0, 1, 0)),
     P0 |-> Plane(V(0, 0, 0), Gray, TYPE_DIFFUSE_COLORS, V(1, 0, 0)),
     C0 |-> Sphere(V(0, 0, 0), Gray, TYPE_DIFFUSE_COLORS, R(2))]
PrimIds == {"S1", "S2", "PW", "Z", "PF", "P0", "C0"}
Obj(id) == PrimTable[id]

SceneLights == {Light(V(6, -3, 0)), Light(V(2, 1, 4))}
CameraPos == <<<<0, 1>>, <<0, 1>>, <<0, 1>>>>
SceneRays == {Ray(CameraPos, V(0, 0, 1)), Ray(CameraPos, V(0, -1, 0))}

\* np.clip(x, 0, MAX_COLOR_VALUE) on one channel
Clip(x) == RMax(R(0), RMin(x, R(MAX_COLOR_VALUE)))
\* astype(np.uint8) of a non-negative value: truncate, keep the low 8 bits
Uint8(x) == R(Floor(x) % 256)
VUint8(v) == <<Uint8(v[1]), Uint8(v[2]), Uint8(v[3])>>
VClip(v) == <<Clip(v[1]), Clip(v[2]), Clip(v[3])>>
\* x rounded, given its integer part f: a tie goes to the even neighbour
RoundFrom(x, f) ==
    IF 2 * (x[1] - f * x[2]) < x[2] THEN R(f)
    ELSE IF 2 * (x[1] - f * x[2]) > x[2] THEN R(f + 1)
    ELSE IF f % 2 = 0 THEN R(f) ELSE R(f + 1)
\* np.round of a non-negative value
Round(x) == RoundFrom(x, Floor(x))

\* the shader the tag selects, for one light
ShaderColor(shader_type, nh, l, eye, dark, light) ==
    IF shader_type = TYPE_DIFFUSE_LIGHT
    THEN <<diffuse_light(nh, l), diffuse_light(nh, l), diffuse_light(nh, l)>>
    ELSE IF shader_type = TYPE_DIFFUSE_COLORS
    THEN diffuse_colors(nh, l, dark, light)
    ELSE IF shader_type = TYPE_DIFF_SPECULAR
    THEN diffuse_with_specular(nh, l, eye, dark, light, DEFAULT_KS)
    ELSE IF shader_type = TYPE_DIFF_SPEC_BORDER
    THEN diffuse_specular_border(nh, l, eye, dark, light, DEFAULT_KS,
                                 DEFAULT_THICKNESS)
    ELSE Zero3

\* the colour one light adds at a point with normal nh
LightColor(obj, nh, l, eye) ==
    ShaderColor(obj.shader_type, nh, l, eye,
                VScale(DARK_VALUE, obj.diffuse), VScale(LIGHT_VALUE, obj.diffuse))

RECURSIVE ColorLoop_no_none_check(_, _, _, _, _, _)
\* mutant: no test of nh; an undefined normal is shaded as the zero vector
ColorLoop_no_none_check(nh, ph, eye, obj, lights, acc) ==
    IF lights = <<>>
    THEN acc
    ELSE ColorLoop_no_none_check(nh, ph, eye, obj, Tail(lights),
             VAdd(acc, LightColor(obj, IF nh = None THEN Zero3 ELSE nh,
                                  get_l(Head(lights), ph), eye)))

RECURSIVE ColorLoop(_, _, _, _, _, _)
\* the loop of compute_color over the lights left, for nh = obj.normal_at(ph) and
\* the sum so far; None when the loop returned early
ColorLoop(nh, ph, eye, obj, lights, acc) ==
    IF lights = <<>>
    THEN acc
    ELSE IF nh = None
         THEN None
         ELSE ColorLoop(nh, ph, eye, obj, Tail(lights),
                        VAdd(acc, LightColor(obj, nh, get_l(Head(lights), ph), eye)))

\* the early return, or the average, the clip and the cast
ColorOf(final_color, n) ==
    IF final_color = None
    THEN Zero3
    ELSE VUint8(VClip(VScale(<<1, n>>, final_color)))

compute_color(ph, eye, obj, lights) ==
    ColorOf(ColorLoop(normal_at(obj, ph), ph, eye, obj, lights, Zero3), Len(lights))

\* an object at t occludes a light at dist_l
Occludes(t, dist_l) == RLt(R(0), t) /\ RLt(t, dist_l)

RECURSIVE Occluded(_, _, _)
\* some object of the list is hit by the shadow ray before the light
Occluded(shadow_ray, objects, dist_l) ==
    IF objects = <<>>
    THEN FALSE
    ELSE IF Occludes(intersect(shadow_ray, Obj(Head(objects))), dist_l)
         THEN TRUE
         ELSE Occluded(shadow_ray, Tail(objects), dist_l)

\* shaders.hard_shadow: nothing of the light's colour when the light is occluded,
\* all of it otherwise
hard_shadow(ph, objects, l, dist_l) ==
    IF Occluded(Ray(ph, l), objects, dist_l)
    THEN Zero3
    ELSE V(MAX_COLOR_VALUE, MAX_COLOR_VALUE, MAX_COLOR_VALUE)

RECURSIVE ShadowLoop(_, _, _, _)
\* the loop of compute_shadow over the lights left
ShadowLoop(ph, objects, lights, final_shadow) ==
    IF lights = <<>>
    THEN final_shadow
    ELSE ShadowLoop(ph, objects, Tail(lights),
                    VAdd(final_shadow,
                         hard_shadow(ph, objects, get_l(Head(lights), ph),
                                     get_dist(Head(lights), ph))))

compute_shadow(ph, objects, lights) ==
    VUint8(VClip(VScale(<<1, Len(lights)>>, ShadowLoop(ph, objects, lights, Zero3))))

\* mutant: a later primitive at the same distance replaces the earlier one
NearestStep_last_wins(best, t, obj) ==
    IF RLt(R(0), t) /\ RLe(t, best.tmin)
    THEN [tmin |-> t, obj_h |-> obj]
    ELSE best

\* if 0 < t < tmin: tmin = t; obj_h = obj
NearestStep(best, t, obj) ==
    IF RLt(R(0), t) /\ RLt(t, best.tmin)
    THEN [tmin |-> t, obj_h |-> obj]
    ELSE best

RECURSIVE NearestLoop(_, _, _)
\* the loop of raytrace over the objects left
NearestLoop(ray, objects, best) ==
    IF objects = <<>>
    THEN best
    ELSE NearestLoop(ray, Tail(objects),
                     NearestStep(best, intersect(ray, Obj(Head(objects))),
                                 Head(objects)))

NearestHit(ray, objects) == NearestLoop(ray, objects, [tmin |-> Inf, obj_h |-> None])

\* the index of the first entry of seq equal to x
IndexOf(seq, x) ==
    CHOOSE k \in 1..Len(seq) : seq[k] = x /\ \A j \in 1..(k - 1) : seq[j] # x
DropAt(seq, k) == SubSeq(seq, 1, k - 1) \o SubSeq(seq, k + 1, Len(seq))
\* list.remove(x): the list without its first entry equal to x
RemoveFirst(seq, x) == DropAt(seq, IndexOf(seq, x))

\* mutant: objects_to_check is the caller's list itself, not a copy of it
CopyAndRemove_aliased(objects, obj) ==
    [caller |-> RemoveFirst(objects, obj), to_check |-> RemoveFirst(objects, obj)]

\* objects_to_check = [obj for obj in objects]; objects_to_check.remove(obj_h):
\* the caller's list after the two statements, and the copy
CopyAndRemove(objects, obj) ==
    [caller |-> objects, to_check |-> RemoveFirst(objects, obj)]

\* mutant: the attenuation is not divided by MAX_COLOR_VALUE
FinalColor_unscaled(color, shadow) ==
    VUint8(<<Round(RMul(color[1], shadow[1])),
             Round(RMul(color[2], shadow[2])),
             Round(RMul(color[3], shadow[3]))>>)

\* (color.astype(float) * (shadow.astype(float) / MAX_COLOR_VALUE)).round()
\*     .astype(np.uint8)
FinalColor(color, shadow) ==
    VUint8(<<Round(RMul(color[1], RDiv(shadow[1], R(MAX_COLOR_VALUE)))),
             Round(RMul(color[2], RDiv(shadow[2], R(MAX_COLOR_VALUE)))),
             Round(RMul(color[3], RDiv(shadow[3], R(MAX_COLOR_VALUE))))>>)

\* Every square root taken at the hit point p of obj is rational: the normal, the
\* eye vector, and for each light its direction, its distance and the sphere roots
\* of the shadow ray.
ExactAt(p, obj, objs, lts) ==
    /\ HasRationalNorm(VSub(CameraPos, p))
    /\ IsSphere(obj) => HasRationalNorm(VSub(p, obj.position))
    /\ \A k \in 1..Len(lts) :
           /\ HasRationalNorm(VSub(lts[k].position, p))
           /\ \A j \in 1..Len(objs) :
                  IsSphere(Obj(objs[j])) =>
                      ExactSphere(Ray(p, get_l(lts[k], p)), Obj(objs[j]))
ExactHit(ray, objs, lts, best) ==
    best.obj_h # None => ExactAt(at(ray, best.tmin), Obj(best.obj_h), objs, lts)
\* Every square root raytrace takes on this scene and ray is rational.
ExactTrace(ray, objs, lts) ==
    /\ \A j \in 1..Len(objs) : IsSphere(Obj(objs[j])) => ExactSphere(ray, Obj(objs[j]))
    /\ ExactHit(ray, objs, lts, NearestHit(ray, objs))

SeqsUpTo(S, lo, hi) == UNION {[1..n -> S] : n \in lo..hi}

\* --------------------------------------------------------------------- sky
\* SkyDome.__init__: the planet and the shell around it share the centre
SkyDome(center, radius, sun_direction, atmosphere_height, avg_density_height) ==
    [center |-> center, radius |-> radius, sun_direction |-> sun_direction,
     atmosphere_height |-> atmosphere_height,
     avg_density_height |-> avg_density_height,
     planet_obj |-> Sphere(center, None, None, radius),
     atmosphere_obj |-> HollowSphere(center, None, None,
                                     RAdd(radius, atmosphere_height))]

\* distance = (dist_to_atmosphere / view_samples) * (i + randoms[i])
SampleDistance(dist, view_samples, k, u) ==
    RMul(RDiv(dist, R(view_samples)), RAdd(R(k), u))
\* segment_size = (dist_to_atmosphere / view_samples) * randoms[i]
SegmentSize(dist, view_samples, u) == RMul(RDiv(dist, R(view_samples)), u)

\* if 0 < t_to_planet < t_to_atmosphere: continue
Shadowed(t_to_planet, t_to_atmosphere) ==
    RLt(R(0), t_to_planet) /\ RLt(t_to_planet, t_to_atmosphere)

\* what one iteration computes before it adds to the accumulator
SampleRecord(k, dist, sample_point, t_to_atmosphere, t_to_planet) ==
    [index |-> k, distance |-> dist, sample_point |-> sample_point,
     t_to_atmosphere |-> t_to_atmosphere, t_to_planet |-> t_to_planet,
     skipped |-> Shadowed(t_to_planet, t_to_atmosphere)]
SunSample(sky, k, dist, sun_ray) ==
    SampleRecord(k, dist, sun_ray.pr, intersect(sun_ray, sky.atmosphere_obj),
                 intersect(sun_ray, sky.planet_obj))
ViewSample(sky, view_ray, k, dist) ==
    SunSample(sky, k, dist, Ray(at(view_ray, dist), sky.sun_direction))

\* The accumulated light is kept as the list of its terms: the exponentials of the
\* density and of the transmittance are not computed.  A term names the sample,
\* the point its density and optical depths are taken at, and the length that
\* multiplies them.
Term(sample, weight) ==
    [index |-> sample.index, sample_point |-> sample.sample_point, weight |-> weight]
Accumulate(terms, sample, weight) ==
    IF sample.skipped THEN terms ELSE Append(terms, Term(sample, weight))

\* Every square root the sun ray from p takes is rational.
ExactSunRay(sky, sun_ray) ==
    ExactSphere(sun_ray, sky.atmosphere_obj) /\ ExactSphere(sun_ray, sky.planet_obj)
ExactSamples(sky, view_ray, jitter, dist) ==
    \A k \in 1..Len(jitter) :
        ExactSunRay(sky, Ray(at(view_ray, SampleDistance(dist, Len(jitter), k - 1,
                                                         jitter[k])),
                             sky.sun_direction))
\* Every square root a sky sampler takes on this dome, ray and jitter is rational.
ExactSky(sky, view_ray, jitter) ==
    /\ ExactSphere(view_ray, sky.atmosphere_obj)
    /\ ExactSamples(sky, view_ray, jitter, intersect(view_ray, sky.atmosphere_obj))

\* =================================================================== state
VARIABLES
    iray,   \* Ray.intersect: the ray of the call
    iobj,   \* Ray.intersect: the primitive of the call
    ires,   \* Ray.intersect: the value returned (None before the return)
    ipc     \* Ray.intersect: "call" before it has run, "done" after

VARIABLES
    sn,      \* shader: unit normal
    sl,      \* shader: unit vector towards the light
    sdark,   \* shader: dark colour
    slight,  \* shader: light colour
    sres,    \* shader: the value returned, a scalar (diffuse_light) or a colour
    spc      \* shader: "call", then the tag of the shader that ran

VARIABLES
    objects,           \* the caller's primitive list (keys of PrimTable)
    lights,            \* the caller's light list
    camera_pos,        \* the camera position
    ray,               \* the ray of the current (or last) call of raytrace
    pc,                \* where raytrace is: idle, hit, miss, color, shadow, return
    tmin,              \* raytrace: the smallest positive t found
    obj_h,             \* raytrace: the primitive hit (None when none)
    ph,                \* raytrace: the hit point
    color,             \* raytrace: what compute_color returned
    objects_to_check,  \* raytrace: the occlusion candidates
    shadow,            \* raytrace: what compute_shadow returned
    pixel              \* what raytrace returns

VARIABLES
    dome,                \* the SkyDome of the call
    r,                   \* sky sampler: the view ray
    randoms,             \* sky sampler: the jitter drawn for each view sample
    kpc,                 \* sky sampler: call, then the name of the method
                         \* running, then done
    dist_to_atmosphere,  \* sky sampler: r.intersect(atmosphere_obj)
    i,                   \* sky sampler: the loop index
    samples,             \* sky sampler: what each iteration so far computed
    light                \* sky sampler: the terms added to the accumulator

intersectVars == <<iray, iobj, ires, ipc>>
shadeVars == <<sn, sl, sdark, slight, sres, spc>>
sceneVars == <<objects, lights, camera_pos>>
raytraceVars == <<objects, lights, camera_pos, ray, pc, tmin, obj_h, ph, color,
                  objects_to_check, shadow, pixel>>
skyVars == <<dome, r, randoms, kpc, dist_to_atmosphere, i, samples, light>>
vars == <<intersectVars, shadeVars, raytraceVars, skyVars>>

\* ------------------------------------------------- one call of Ray.intersect
Coords == (-MaxCoord)..MaxCoord
Origins == {V(x, y, z) : x \in Coords, y \in Coords, z \in Coords}
AxisDirs == {V(1, 0, 0), V(-1, 0, 0), V(0, 1, 0), V(0, -1, 0), V(0, 0, 1), V(0, 0, -1)}
\* the axis directions, one oblique unit direction and one direction that is not unit
Directions == AxisDirs \cup {<<<<0, 1>>, <<3, 5>>, <<4, 5>>>>, V(0, 0, 2)}

IntersectPrims ==
    {Sphere(V(0, 0, 0), Gray, TYPE_DIFFUSE_COLORS, R(0)),
     Sphere(V(0, 0, 0), Gray, TYPE_DIFFUSE_COLORS, R(1)),
     Sphere(V(0, 0, 0), Gray, TYPE_DIFFUSE_COLORS, R(2)),
     Sphere(V(0, 1, 0), Gray, TYPE_DIFFUSE_COLORS, R(1)),
     HollowSphere(V(0, 0, 0), None, None, R(2)),
     Plane(V(0, 0, 0), Gray, TYPE_DIFFUSE_COLORS, V(0, 0, 1)),
     Plane(V(0, 0, 1), Gray, TYPE_DIFFUSE_COLORS, V(0, 0, -1)),
     Plane(V(0, 0, 0), Gray, TYPE_DIFFUSE_COLORS, <<<<0, 1>>, <<3, 5>>, <<4, 5>>>>),
     Triangle(V(-1, -1, 0), V(1, -1, 0), V(-1, 1, 0), Gray, TYPE_DIFFUSE_COLORS),
     Triangle(V(0, 0, 0), V(0, 1, 0), V(0, 0, 1), Gray, TYPE_DIFFUSE_COLORS),
     Tetrahedron(V(0, 0, 0), V(1, 0, 0), V(0, 1, 0), V(0, 0, 2), Gray,
                 TYPE_DIFFUSE_COLORS),
     OtherObject(V(0, 0, 0))}

InitIntersect ==
    /\ iray \in {Ray(pr, nr) : pr \in Origins, nr \in Directions}
    /\ iobj \in IntersectPrims
    /\ (IsSphere(iobj) => ExactSphere(iray, iobj)) = TRUE
    /\ ires = None /\ ipc = "call"
    /\ sn = None /\ sl = None /\ sdark = None /\ slight = None
    /\ sres = None /\ spc = None
    /\ objects = None /\ lights = None /\ camera_pos = None /\ ray = None
    /\ pc = None /\ tmin = None /\ obj_h = None /\ ph = None /\ color = None
    /\ objects_to_check = None /\ shadow = None /\ pixel = None
    /\ dome = None /\ r = None /\ randoms = None /\ kpc = None
    /\ dist_to_atmosphere = None /\ i = None /\ samples = None /\ light = None

\* t = ray.intersect(obj)
Intersect ==
    /\ ipc = "call"
    /\ ires' = intersect(iray, iobj)
    /\ ipc' = "done"
    /\ UNCHANGED <<iray, iobj, shadeVars, raytraceVars, skyVars>>

NextIntersect == Intersect

\* --------------------------------------------- one call of a diffuse shader
Comps == (-MaxComp)..MaxComp
\* unit vectors with rational components
UnitVectors ==
    {normalize(w) : w \in {v \in {V(x, y, z) : x \in Comps, y \in Comps, z \in Comps} :
                              v # Zero3 /\ HasRationalNorm(v)}}

ShadeColors ==
    {Zero3, VScale(DARK_VALUE, COLOR_BLUE), VScale(LIGHT_VALUE, COLOR_BLUE),
     V(240, 15, 128)}

InitShade ==
    /\ sn \in UnitVectors
    /\ sl \in UnitVectors
    /\ sdark \in ShadeColors
    /\ slight \in ShadeColors
    /\ sres = None /\ spc = "call"
    /\ iray = None /\ iobj = None /\ ires = None /\ ipc = None
    /\ objects = None /\ lights = None /\ camera_pos = None /\ ray = None
    /\ pc = None /\ tmin = None /\ obj_h = None /\ ph = None /\ color = None
    /\ objects_to_check = None /\ shadow = None /\ pixel = None
    /\ dome = None /\ r = None /\ randoms = None /\ kpc = None
    /\ dist_to_atmosphere = None /\ i = None /\ samples = None /\ light = None

ShadeDiffuseLight ==
    /\ spc = "call"
    /\ sres' = diffuse_light(sn, sl)
    /\ spc' = TYPE_DIFFUSE_LIGHT
    /\ UNCHANGED <<sn, sl, sdark, slight, intersectVars, raytraceVars, skyVars>>

ShadeDiffuseColors ==
    /\ spc = "call"
    /\ sres' = diffuse_colors(sn, sl, sdark, slight)
    /\ spc' = TYPE_DIFFUSE_COLORS
    /\ UNCHANGED <<sn, sl, sdark, slight, intersectVars, raytraceVars, skyVars>>

NextShade == ShadeDiffuseLight \/ ShadeDiffuseColors

\* ------------------------------------------------------- calls of raytrace
InitRaytrace ==
    /\ objects \in SeqsUpTo(PrimIds, 0, MaxObjects)
    /\ lights \in SeqsUpTo(SceneLights, 1, MaxLights)
    /\ (\A sr \in SceneRays : ExactTrace(sr, objects, lights)) = TRUE
    /\ camera_pos = CameraPos
    /\ ray = None /\ pc = "idle"
    /\ tmin = None /\ obj_h = None /\ ph = None /\ color = None
    /\ objects_to_check = None /\ shadow = None /\ pixel = None
    /\ iray = None /\ iobj = None /\ ires = None /\ ipc = None
    /\ sn = None /\ sl = None /\ sdark = None /\ slight = None
    /\ sres = None /\ spc = None
    /\ dome = None /\ r = None /\ randoms = None /\ kpc = None
    /\ dist_to_atmosphere = None /\ i = None /\ samples = None /\ light = None

\* the end of the loop over the primitives: if obj_h
Scanned(best) ==
    /\ tmin' = best.tmin
    /\ obj_h' = best.obj_h
    /\ pc' = IF best.obj_h # None THEN "hit" ELSE "miss"

\* raytrace(ray, camera_pos, objects, lights): the loop over the primitives
RaytraceCall(sr) ==
    /\ pc = "idle"
    /\ ray' = sr
    /\ Scanned(NearestHit(sr, objects))
    /\ UNCHANGED <<sceneVars, ph, color, objects_to_check, shadow, pixel>>
    /\ UNCHANGED <<intersectVars, shadeVars, skyVars>>

\* ph, eye and color = compute_color(ph, eye, obj_h, lights)
RaytraceColor ==
    /\ pc = "hit"
    /\ ph' = at(ray, tmin)
    /\ color' = compute_color(ph', normalize(VSub(camera_pos, ph')), Obj(obj_h), lights)
    /\ pc' = "color"
    /\ UNCHANGED <<sceneVars, ray, tmin, obj_h, objects_to_check, shadow, pixel>>
    /\ UNCHANGED <<intersectVars, shadeVars, skyVars>>

\* the copy of the list without obj_h, and shadow = compute_shadow(...)
RaytraceShadow ==
    /\ pc = "color"
    /\ objects' = CopyAndRemove(objects, obj_h).caller
    /\ objects_to_check' = CopyAndRemove(objects, obj_h).to_check
    /\ shadow' = compute_shadow(ph, objects_to_check', lights)
    /\ pc' = "shadow"
    /\ UNCHANGED <<lights, camera_pos, ray, tmin, obj_h, ph, color, pixel>>
    /\ UNCHANGED <<intersectVars, shadeVars, skyVars>>

\* final_color and the return of the hit branch
RaytraceCompose ==
    /\ pc = "shadow"
    /\ pixel' = FinalColor(color, shadow)
    /\ pc' = "return"
    /\ UNCHANGED <<sceneVars, ray, tmin, obj_h, ph, color, objects_to_check, shadow>>
    /\ UNCHANGED <<intersectVars, shadeVars, skyVars>>

\* the return of the no-hit branch
RaytraceMiss ==
    /\ pc = "miss"
    /\ pixel' = V(0, 0, 0)
    /\ pc' = "return"
    /\ UNCHANGED <<sceneVars, ray, tmin, obj_h, ph, color, objects_to_check, shadow>>
    /\ UNCHANGED <<intersectVars, shadeVars, skyVars>>

\* the caller takes the pixel; the locals of the call are gone
RaytraceReturn ==
    /\ pc = "return"
    /\ pc' = "idle"
    /\ tmin' = None /\ obj_h' = None /\ ph' = None /\ color' = None
    /\ objects_to_check' = None /\ shadow' = None /\ pixel' = None
    /\ UNCHANGED <<sceneVars, ray>>
    /\ UNCHANGED <<intersectVars, shadeVars, skyVars>>

NextRaytrace ==
    \/ \E sr \in SceneRays : RaytraceCall(sr)
    \/ RaytraceColor
    \/ RaytraceShadow
    \/ RaytraceCompose
    \/ RaytraceMiss
    \/ RaytraceReturn

\* ------------------------------------------------ one call of a sky sampler
\* a planet of radius 3 at the origin under an atmosphere of height 2
SkyDomes ==
    {SkyDome(V(0, 0, 0), R(3), sun, R(2), <<1, 2>>) : sun \in {V(0, 0, 1), V(0, 0, -1)}}
\* view rays from outside the shell, from inside it and from the planet's surface
SkyRays ==
    {Ray(V(0, 0, z), nr) : z \in {-6, -4, -3, 4}, nr \in {V(0, 0, 1), V(0, 0, -1)}}
\* np.random.random_sample draws from [0, 1)
Jitters == {<<0, 1>>, <<1, 2>>}

InitSky ==
    /\ dome \in SkyDomes
    /\ r \in SkyRays
    /\ randoms \in [1..ViewSamples -> Jitters]
    /\ ExactSky(dome, r, randoms) = TRUE
    /\ kpc = "call"
    /\ dist_to_atmosphere = None /\ i = None /\ samples = <<>> /\ light = <<>>
    /\ iray = None /\ iobj = None /\ ires = None /\ ipc = None
    /\ sn = None /\ sl = None /\ sdark = None /\ slight = None
    /\ sres = None /\ spc = None
    /\ objects = None /\ lights = None /\ camera_pos = None /\ ray = None
    /\ pc = None /\ tmin = None /\ obj_h = None /\ ph = None /\ color = None
    /\ objects_to_check = None /\ shadow = None /\ pixel = None

\* light_at_ray(r, view_samples): up to the loop
LightAtRayCall ==
    /\ kpc = "call"
    /\ kpc' = "light_at_ray"
    /\ dist_to_atmosphere' = intersect(r, dome.atmosphere_obj)
    /\ i' = 0
    /\ UNCHANGED <<dome, r, randoms, samples, light>>
    /\ UNCHANGED <<intersectVars, shadeVars, raytraceVars>>

\* in_scattering(r, view_samples): up to the loop
InScatteringCall ==
    /\ kpc = "call"
    /\ kpc' = "in_scattering"
    /\ dist_to_atmosphere' = intersect(r, dome.atmosphere_obj)
    /\ i' = 0
    /\ UNCHANGED <<dome, r, randoms, samples, light>>
    /\ UNCHANGED <<intersectVars, shadeVars, raytraceVars>>

\* one iteration of the loop of light_at_ray: the weight is segment_size
LightAtRaySample ==
    /\ kpc = "light_at_ray"
    /\ i < ViewSamples
    /\ samples' = Append(samples,
           ViewSample(dome, r, i,
                      SampleDistance(dist_to_atmosphere, ViewSamples, i, randoms[i + 1])))
    /\ light' = Accumulate(light, samples'[i + 1],
                           SegmentSize(dist_to_atmosphere, ViewSamples, randoms[i + 1]))
    /\ i' = i + 1
    /\ UNCHANGED <<dome, r, randoms, kpc, dist_to_atmosphere>>
    /\ UNCHANGED <<intersectVars, shadeVars, raytraceVars>>

\* one iteration of the loop of in_scattering: the weight is distance
InScatteringSample ==
    /\ kpc = "in_scattering"
    /\ i < ViewSamples
    /\ samples' = Append(samples,
           ViewSample(dome, r, i,
                      SampleDistance(dist_to_atmosphere, ViewSamples, i, randoms[i + 1])))
    /\ light' = Accumulate(light, samples'[i + 1], samples'[i + 1].distance)
    /\ i' = i + 1
    /\ UNCHANGED <<dome, r, randoms, kpc, dist_to_atmosphere>>
    /\ UNCHANGED <<intersectVars, shadeVars, raytraceVars>>

\* the loop is over: the sampler scales the accumulator and returns it
SkyReturn ==
    /\ kpc \in {"light_at_ray", "in_scattering"}
    /\ i = ViewSamples
    /\ kpc' = "done"
    /\ UNCHANGED <<dome, r, randoms, dist_to_atmosphere, i, samples, light>>
    /\ UNCHANGED <<intersectVars, shadeVars, raytraceVars>>

NextSky ==
    \/ LightAtRayCall
    \/ InScatteringCall
    \/ LightAtRaySample
    \/ InScatteringSample
    \/ SkyReturn

\* ========================================================== specifications
SpecIntersect == InitIntersect /\ [][NextIntersect]_vars
SpecShade == InitShade /\ [][NextShade]_vars
SpecRaytrace == InitRaytrace /\ [][NextRaytrace]_vars
SpecSky == InitSky /\ [][NextSky]_vars

\* ================================================================== claims
\* the origin of the ray of the call lies in the (supporting) plane of the primitive
OriginInPlane == dot(VSub(iobj.position, iray.pr), iobj.n) = R(0)
\* the origin of the ray of the call is on or inside the sphere of the call
OriginInSphere == RLe(SphereC(VSub(iray.pr, iobj.position), iobj.radius), R(0))
OriginStrictlyInSphere == RLt(SphereC(VSub(iray.pr, iobj.position), iobj.radius), R(0))

PlaneCases(d, num, res) ==
    /\ (d = R(0) /\ num = R(0)) => res = R(0)
    /\ (d = R(0) /\ num # R(0)) => res = R(-1)
    /\ (d # R(0) /\ RSign(num) * RSign(d) >= 0) => (RLe(R(0), res) /\ RMul(res, d) = num)
    /\ (d # R(0) /\ RSign(num) * RSign(d) < 0) => res = R(-1)

InUnitTriangle(st) ==
    /\ RLe(R(0), st[1]) /\ RLe(st[1], R(1))
    /\ RLe(R(0), st[2]) /\ RLe(st[2], R(1))
    /\ RLe(R(0), RAdd(st[1], st[2])) /\ RLe(RAdd(st[1], st[2]), R(1))
\* the result for the supporting-plane distance and the coordinates of its point
TriangleCases(plane_t, st, res) ==
    /\ InUnitTriangle(st) => res = plane_t
    /\ ~InUnitTriangle(st) => res = R(-1)
    /\ plane_t = R(-1) => res = R(-1)
\* p is a point of the triangle of the call
InTriangle(p) ==
    /\ dot(VSub(p, iobj.position), iobj.n) = R(0)
    /\ InUnitTriangle(get_barycentric_coord(iobj, p))
PlaneHitST(plane_t) == get_barycentric_coord(iobj, at(iray, plane_t))

\* C9: intersect_triangle returns the supporting-plane distance exactly when the
\* barycentric coordinates of the plane hit point are in the unit triangle and -1
\* otherwise; a ray that misses the supporting plane never reports a hit, and a
\* value other than -1 is the distance of a point of the triangle.
C9_TriangleContainment ==
    (ipc = "done" /\ IsTriangle(iobj)) =>
        /\ TriangleCases(intersect_plane(iray, iobj),
                         PlaneHitST(intersect_plane(iray, iobj)), ires)
        /\ ires # R(-1) => (RLe(R(0), ires) /\ InTriangle(at(iray, ires)))

\* s and t are each in [0, 1] but their sum exceeds 1
BeyondHypotenuse(st) ==
    /\ RLe(R(0), st[1]) /\ RLe(st[1], R(1))
    /\ RLe(R(0), st[2]) /\ RLe(st[2], R(1))
    /\ RLt(R(1), RAdd(st[1], st[2]))

\* the supporting plane was hit at a point whose coordinates s and t are each in
\* [0, 1] but whose sum exceeds 1, and the triangle reported a miss
C9_Witness ==
    /\ ipc = "done"
    /\ IsTriangle(iobj)
    /\ RLt(R(0), intersect_plane(iray, iobj))
    /\ BeyondHypotenuse(PlaneHitST(intersect_plane(iray, iobj)))
    /\ ires = R(-1)

\* C5: for unit vectors n and l the diffuse coefficient max(0, dot(n, l)) lies in
\* [0, 1], and each channel of the colour diffuse_colors returns lies between the
\* same channel of dark and of light.
C5_ShadingBounds ==
    /\ spc = TYPE_DIFFUSE_LIGHT => (RLe(R(0), sres) /\ RLe(sres, R(1)))
    /\ spc = TYPE_DIFFUSE_COLORS =>
           \A c \in 1..RGB_CHANNELS :
               /\ RLe(RMin(sdark[c], slight[c]), sres[c])
               /\ RLe(sres[c], RMax(sdark[c], slight[c]))

\* diffuse_colors ran on a surface turned away from the light, with distinct dark
\* and light colours, and returned the dark colour
C5_Witness ==
    /\ spc = TYPE_DIFFUSE_COLORS
    /\ RLt(dot(sn, sl), R(0))
    /\ sdark # slight
    /\ sres = sdark

\* the intersect value of every entry of the caller's list for the current ray
HitTs == [k \in 1..Len(objects) |-> intersect(ray, Obj(objects[k]))]
\* the entries hit at t > 0
Positive(hits) == {k \in DOMAIN hits : RLt(R(0), hits[k])}
\* the first entry, in list order, among those at the smallest positive t
FirstNearest(hits) ==
    CHOOSE k \in Positive(hits) :
        \A j \in Positive(hits) : RLe(hits[k], hits[j]) /\ (hits[j] = hits[k] => k <= j)
AfterScan == pc \in {"hit", "miss", "color", "shadow", "return"}
AfterColor == pc \in {"color", "shadow", "return"}
NothingShaded ==
    /\ obj_h = None
    /\ pc \in {"miss", "return"}
    /\ color = None
    /\ pc = "return" => pixel = V(0, 0, 0)
Shaded(k, t) ==
    /\ obj_h = objects[k]
    /\ tmin = t
    /\ pc # "miss"
    /\ AfterColor =>
           /\ ph = at(ray, t)
           /\ color = compute_color(ph, normalize(VSub(camera_pos, ph)),
                                    Obj(objects[k]), lights)
ShadesFirstNearest(hits) ==
    IF Positive(hits) = {}
    THEN NothingShaded
    ELSE Shaded(FirstNearest(hits), hits[FirstNearest(hits)])

\* C2: raytrace shades the primitive with the smallest strictly positive intersect
\* value, the first in list order among those at that value; when no primitive has
\* a strictly positive value it shades nothing and returns black.
C2_NearestFirstSeen == AfterScan => ShadesFirstNearest(HitTs)

TieFirstChosen(hits) ==
    \E a, b \in Positive(hits) :
        /\ a < b
        /\ objects[a] # objects[b]
        /\ hits[a] = tmin
        /\ hits[b] = tmin
        /\ obj_h = objects[a]

\* two different primitives are hit at the same smallest distance and the first of
\* the two was shaded
C2_Witness == pc = "color" /\ TieFirstChosen(HitTs)

NormalUndefined == obj_h # None /\ normal_at(Obj(obj_h), at(ray, tmin)) = None

\* C3: when the normal of the hit primitive at the hit point is undefined,
\* compute_color returns black and raytrace returns black, for every number of
\* lights, shader tag and shadow result.
C3_UndefinedNormalBlack ==
    (AfterColor /\ NormalUndefined) =>
        /\ color = Zero3
        /\ pc = "return" => pixel = Zero3

\* a primitive with an undefined normal was hit under two lights, none of them
\* occluded, and the pixel returned is black
C3_Witness ==
    /\ pc = "return"
    /\ NormalUndefined
    /\ Len(lights) = 2
    /\ shadow = V(MAX_COLOR_VALUE, MAX_COLOR_VALUE, MAX_COLOR_VALUE)
    /\ pixel = Zero3

Count(seq, x) == Cardinality({k \in 1..Len(seq) : seq[k] = x})

\* C4 (as stated): on every hit the occlusion candidates hold no occurrence of the
\* hit primitive and hold every other entry of the primitive list, also when a
\* primitive appears more than once in the list.
C4_HitPrimitiveExcluded ==
    (pc \in {"shadow", "return"} /\ obj_h # None) =>
        /\ Count(objects_to_check, obj_h) = 0
        /\ \A id \in PrimIds \ {obj_h} : Count(objects_to_check, id) = Count(objects, id)

\* C6: a call of raytrace leaves the caller's primitive list, the lights, the
\* camera position and the ray unchanged; the hit primitive is removed from a copy.
C6_SceneUnchanged ==
    [][/\ objects' = objects
       /\ lights' = lights
       /\ camera_pos' = camera_pos
       /\ pc # "idle" => ray' = ray
       /\ pc' = "shadow" => Len(objects_to_check') = Len(objects') - 1]_vars

\* the hit primitive has been removed from the copy while the caller's list still
\* holds it
C6_Witness ==
    /\ pc = "shadow"
    /\ Count(objects, obj_h) = 1
    /\ Count(objects_to_check, obj_h) = 0
    /\ Len(objects) = 2

IsByte(x) == x[2] = 1 /\ 0 <= x[1] /\ x[1] <= MAX_COLOR_VALUE

\* C7: on a hit the pixel is, per channel, round(color * shadow / MAX_COLOR_VALUE)
\* of two integer triples in [0, MAX_COLOR_VALUE]; each channel is an integer in
\* [0, 255], is at most the direct colour, and is 0 when the attenuation is 0.
C7_PixelFormula ==
    (pc = "return" /\ obj_h # None) =>
        \A c \in 1..RGB_CHANNELS :
            /\ IsByte(color[c])
            /\ IsByte(shadow[c])
            /\ pixel[c] = R((2 * color[c][1] * shadow[c][1] + MAX_COLOR_VALUE)
                              \div (2 * MAX_COLOR_VALUE))
            /\ IsByte(pixel[c])
            /\ pixel[c][1] <= color[c][1]
            /\ shadow[c][1] = 0 => pixel[c][1] = 0

\* one of two lights is occluded: the pixel is strictly between 0 and the colour
C7_Witness ==
    /\ pc = "return"
    /\ obj_h # None
    /\ \E c \in 1..RGB_CHANNELS :
           /\ 0 < shadow[c][1] /\ shadow[c][1] < MAX_COLOR_VALUE
           /\ 0 < pixel[c][1] /\ pixel[c][1] < color[c][1]

\* p lies in the atmosphere shell of the dome: not below the planet's surface and
\* not above the top of the atmosphere
InShell(p) ==
    /\ RLe(RMul(dome.radius, dome.radius), dot(VSub(p, dome.center), VSub(p, dome.center)))
    /\ RLe(dot(VSub(p, dome.center), VSub(p, dome.center)),
           RMul(dome.atmosphere_obj.radius, dome.atmosphere_obj.radius))
\* the far root of the reduced quadratic
FarRoot(b, discriminant) == RAdd(RNeg(b), RSqrt(discriminant))
\* the distance at which the ray from p towards the sun leaves the shell
ShellExit(dif) ==
    FarRoot(SphereB(dome.sun_direction, dif),
            Discriminant(SphereB(dome.sun_direction, dif),
                         SphereC(dif, dome.atmosphere_obj.radius)))
\* the ray from the sample point towards the sun reaches the planet, and reaches it
\* before it leaves the shell
PlanetBeforeExit(sample) ==
    /\ RLt(R(0), sample.t_to_planet)
    /\ RLt(sample.t_to_planet, ShellExit(VSub(sample.sample_point, dome.center)))
Contributes(sample) == \E m \in 1..Len(light) : light[m].index = sample.index

\* C10 (as stated): a view sample point in the atmosphere shell whose ray towards
\* the sun hits the planet before it leaves the shell is skipped and adds nothing
\* to the accumulated light.
C10_ShadowedSampleSkipped ==
    \A k \in 1..Len(samples) :
        (InShell(samples[k].sample_point) /\ PlanetBeforeExit(samples[k])) =>
            (samples[k].skipped /\ ~Contributes(samples[k]))

\* the distance at which light_at_ray places the view sample of a term:
\* (index + u) * L / V for the jitter u drawn for that index
PlacedAt(term) ==
    SampleDistance(dist_to_atmosphere, ViewSamples, term.index, randoms[term.index + 1])

\* C11 (as stated): in light_at_ray the segment weight multiplied into the
\* contribution of view sample i is (i + u_i) * L / V, the distance at which the
\* sample is placed, as optical_depth weights its samples.
C11_WeightIsSampleDistance ==
    (kpc = "light_at_ray") =>
        \A m \in 1..Len(light) :
            /\ samples[light[m].index + 1].distance = PlacedAt(light[m])
            /\ light[m].weight = PlacedAt(light[m])

====
